---- MODULE Spec2Model ----
(***************************************************************************)
(* Verification model of two patterns of the sv-workflows STR scripts:     *)
(*                                                                         *)
(*  - the dependency window that limits parallel Hail Batch jobs           *)
(*    (str/runners/str_iterative_eh_runner.py, main;                       *)
(*     str/coloc/coloc_gymrek_ukbb_runner.py, manage_concurrency_for_job); *)
(*  - the sharded VCF combiner (str/helper/merge_str_vcf_combiner.py).     *)
(*                                                                         *)
(* Spec is the job-submission loop followed by the batch's execution;      *)
(* SpecMerge is one run of the VCF combiner.                               *)
(***************************************************************************)
EXTENDS Integers, Sequences, FiniteSets, TLC

VARIABLES
    max_parallel_jobs,  \* the --max-parallel-jobs option
    jobs,               \* the list `jobs` / `_dependent_jobs`
    created,            \* number of jobs made by b.new_job so far
    deps,               \* job -> set of jobs given to job.depends_on
    work,               \* per work item of the loop: the job made for it, 0 if skipped
    error,              \* exception that ended the driver, "none" while it runs
    submitted,          \* b.run(wait=False) was called
    status,             \* job -> "pending" | "running" | "done"
    shard_files,        \* the *.vcf.gz files of --input-dir: name -> lines
    input_files_dict,   \* shard number -> file name
    mpc,                \* where the combiner is: "glob", "next", "read", "done",
                        \* or "failed" once an exception has ended it
    todo,               \* keys the `for key in sorted(...)` loop has yet to visit
    key,                \* the loop variable `key`
    lineno,             \* lines of the open shard consumed by `for line in f`
    out,                \* lines written to `handle`
    parsed,             \* the count printed by 'Parsed N sharded VCFs', -1 before
    parsing,            \* the file named by the last 'Parsing <file>' print
    open_shards,        \* the shard files gzip.open holds open
    opened,             \* how many shard files gzip.open has opened
    pheno,              \* the --pheno option: phenotype names joined by commas
    nodata,             \* the (phenotype, gene) pairs without GWAS data in the window
    existing,           \* the result files present under the output path
    run,                \* 1 for the first run of the coloc runner, 2 for the re-run
    cpc,                \* where the coloc runner is: "loop", "ran", "failed"
    cpos,               \* combinations of the three nested loops visited so far
    csubmitted,         \* combinations a job was made for in this run
    cpending            \* jobs of the batch that have not finished yet

gateVars == <<max_parallel_jobs, jobs, created, deps, work, error, submitted, status>>

mergeVars ==
    <<shard_files, input_files_dict, mpc, todo, key, lineno, out, parsed,
      parsing, open_shards, opened>>

colocVars == <<pheno, nodata, existing, run, cpc, cpos, csubmitted, cpending>>

vars == <<gateVars, mergeVars, colocVars>>

\* ------------------------------------------------------------------ bounds
\* Largest window size tried; sizes range over -1..MaxWindow, so that the
\* invalid sizes 0 and -1 are tried too.
MaxWindow == 2
\* Number of work items (sample x shard) the loop enumerates at most.
MaxItems == 5
\* Number of shard files in the input directory at most.
MaxShards == 2
\* Number of lines in all the shard files together at most.
MaxLines == 3
\* Largest shard number in a file name; numbers range over 0..MaxKey.
MaxKey == 2
\* Number of phenotype names in the --pheno option at most.
MaxPhenos == 2
\* Number of eGenes of the cell type.
MaxGenes == 2

WindowSizes == -1..MaxWindow

\* ------------------------------------------------- Python list indexing
\* lst[i] on a list of length Len(lst): a negative i counts from the end,
\* and an index outside the list raises IndexError.
PyIndexOK(lst, i) ==
    IF i < 0 THEN Len(lst) + i >= 0 ELSE i < Len(lst)

\* Variant: a negative index counted from the front of the list.
PyIndexFromFront(lst, i) ==
    IF i < 0 THEN lst[-i] ELSE lst[i + 1]

PyIndex(lst, i) ==
    IF i < 0 THEN lst[Len(lst) + i + 1] ELSE lst[i + 1]

\* ------------------------------------------------------------- the gate
\* Variant: the comparison off by one (`>` for `>=`).
GateFullStrict(lst, w) == Len(lst) > w

\* `if len(jobs) >= max_parallel_jobs:` -- does the new job get a dependency
GateFull(lst, w) == Len(lst) >= w

\* Variant: the index off by one, one job too recent.
GateIndexOffByOne(w) == -w + 1

\* index handed to jobs[...] in `job.depends_on(jobs[-max_parallel_jobs])`
GateIndex(w) == -w

\* Variant: a history bounded to the window, the oldest handle dropped.
AppendJobEvicting(lst, job) ==
    LET appended == Append(lst, job) IN
    IF Len(appended) > max_parallel_jobs /\ Len(appended) > 1
    THEN Tail(appended) ELSE appended

\* `jobs.append(eh_job)` / `_dependent_jobs.append(job)`
AppendJob(lst, job) == Append(lst, job)

\* Variant: the edge reversed, the earlier job made to wait for the new one.
DependsOnReversed(ds, job, on) == [ds EXCEPT ![on] = @ \cup {job}]

\* Variant: the new job made to wait for itself.
DependsOnSelf(ds, job, on) == [ds EXCEPT ![job] = @ \cup {job}]

\* `job.depends_on(on)`: one more dependency of `job`
DependsOn(ds, job, on) == [ds EXCEPT ![job] = @ \cup {on}]

\* The combiner before it has looked at its input directory.
MergeStart ==
    /\ input_files_dict = <<>>
    /\ mpc = "glob"
    /\ todo = <<>>
    /\ key = -1
    /\ lineno = 0
    /\ out = <<>>
    /\ parsed = -1
    /\ parsing = <<>>
    /\ open_shards = {}
    /\ opened = 0

\* The driver before its first work item.
GateStart ==
    /\ jobs = <<>>
    /\ created = 0
    /\ deps = <<>>
    /\ work = <<>>
    /\ error = "none"
    /\ submitted = FALSE
    /\ status = <<>>

\* The coloc runner at the start of its first run, with no arguments chosen.
ColocIdle ==
    /\ pheno = <<>>
    /\ nodata = {}
    /\ existing = {}
    /\ run = 1
    /\ cpc = "loop"
    /\ cpos = 0
    /\ csubmitted = {}
    /\ cpending = {}

Init ==
    /\ max_parallel_jobs \in WindowSizes
    /\ GateStart
    /\ shard_files = <<>>
    /\ MergeStart
    /\ ColocIdle

\* The driver is inside the loop over work items.
Looping == error = "none" /\ ~submitted

\* Variant: a skipped work item still put in the list, as an empty slot.
SkipItemTakingSlot ==
    /\ Looping
    /\ Len(work) < MaxItems
    /\ work' = Append(work, 0)
    /\ jobs' = Append(jobs, 0)
    /\ UNCHANGED <<max_parallel_jobs, created, deps, error, submitted, status>>
    /\ UNCHANGED <<mergeVars, colocVars>>

\* `if to_path(...).exists() and not output_bam_json: continue`
SkipItem ==
    /\ Looping
    /\ Len(work) < MaxItems
    /\ work' = Append(work, 0)
    /\ UNCHANGED <<max_parallel_jobs, jobs, created, deps, error, submitted, status>>
    /\ UNCHANGED <<mergeVars, colocVars>>

\* b.new_job(...); if len(jobs) >= max_parallel_jobs:
\*     eh_job.depends_on(jobs[-max_parallel_jobs]); jobs.append(eh_job)
RegisterJob ==
    /\ Looping
    /\ Len(work) < MaxItems
    /\ LET job == created + 1 IN
       /\ created' = job
       /\ status' = Append(status, "pending")
       /\ IF GateFull(jobs, max_parallel_jobs)
            /\ ~PyIndexOK(jobs, GateIndex(max_parallel_jobs))
          THEN \* jobs[...] raises IndexError after the job was made
               /\ error' = "IndexError"
               /\ deps' = Append(deps, {})
               /\ UNCHANGED <<jobs, work>>
          ELSE /\ deps' =
                      IF GateFull(jobs, max_parallel_jobs)
                      THEN DependsOn(Append(deps, {}), job,
                                     PyIndex(jobs, GateIndex(max_parallel_jobs)))
                      ELSE Append(deps, {})
               /\ jobs' = AppendJob(jobs, job)
               /\ work' = Append(work, job)
               /\ UNCHANGED error
    /\ UNCHANGED <<max_parallel_jobs, submitted>>
    /\ UNCHANGED <<mergeVars, colocVars>>

\* b.run(wait=False), reached when the loop over the work items ends
RunBatch ==
    /\ Looping
    /\ submitted' = TRUE
    /\ UNCHANGED <<max_parallel_jobs, jobs, created, deps, work, error, status>>
    /\ UNCHANGED <<mergeVars, colocVars>>

\* The batch service starts a job once every job it depends on is done.
StartJob ==
    /\ submitted
    /\ \E j \in 1..created :
        /\ status[j] = "pending"
        /\ \A d \in deps[j] : status[d] = "done"
        /\ status' = [status EXCEPT ![j] = "running"]
    /\ UNCHANGED <<max_parallel_jobs, jobs, created, deps, work, error, submitted>>
    /\ UNCHANGED <<mergeVars, colocVars>>

\* A running job finishes; jobs finish in any order.
CompleteJob ==
    /\ submitted
    /\ \E j \in 1..created :
        /\ status[j] = "running"
        /\ status' = [status EXCEPT ![j] = "done"]
    /\ UNCHANGED <<max_parallel_jobs, jobs, created, deps, work, error, submitted>>
    /\ UNCHANGED <<mergeVars, colocVars>>

Next ==
    \/ SkipItem
    \/ RegisterJob
    \/ RunBatch
    \/ StartJob
    \/ CompleteJob

Spec == Init /\ [][Next]_vars

\* The batch service does not idle: while some job can start it starts
\* one, and a running job finishes.
SpecFair == Spec /\ WF_vars(StartJob) /\ WF_vars(CompleteJob)

\* ------------------------------------------------------ the VCF combiner
\* What a line of a shard starts with.  A line of the model is its marker
\* together with the file and the place it was read from, so that lines of
\* different shards are never equal.
Markers == {"##fileformat", "##contig", "#CHROM", "##source", "chr1"}

HashMarkers ==
    {"##fileformat", "##INFO", "##FILTER", "##FORMAT", "##contig",
     "##command", "#CHROM", "##source"}

\* line.startswith(p)
StartsWith(line, p) ==
    IF p = "#" THEN line.marker \in HashMarkers ELSE line.marker = p

\* A shard file is named eh_shard<digits>.vcf.gz; the model names it by its
\* digits.  eh_shard01.vcf.gz is the one name written with a leading zero:
\* it has the shard number of eh_shard1.vcf.gz.
ShardNames == {<<d>> : d \in 0..MaxKey} \cup {<<0, 1>>}

\* int(...) of a string of decimal digits
RECURSIVE PyInt(_)
PyInt(digits) ==
    IF digits = <<>> THEN 0
    ELSE 10 * PyInt(SubSeq(digits, 1, Len(digits) - 1)) + digits[Len(digits)]

\* int(file_path.split('eh_shard')[1].split('.')[0])
ShardKey(name) == PyInt(name)

MarkerSeqs(n) == UNION {[1..m -> Markers] : m \in 0..n}

\* Every directory holding the files named in S with at most `budget` lines
\* in all.
RECURSIVE Directories(_, _)
Directories(S, budget) ==
    IF S = {} THEN {<<>>}
    ELSE LET name == CHOOSE x \in S : TRUE IN
         UNION {{[x \in S |-> IF x = name THEN c ELSE d[x]] :
                     d \in Directories(S \ {name}, budget - Len(c))} :
                c \in MarkerSeqs(budget)}

\* The orders in which glob('*.vcf.gz') may list the files of S.
Listings(S) ==
    {order \in [1..Cardinality(S) -> S] :
        \A i, j \in 1..Cardinality(S) : order[i] = order[j] => i = j}

\* The i-th line of a shard file.
LineAt(name, i) == [marker |-> shard_files[name][i], file |-> name, n |-> i]

FileLines(name) == [i \in 1..Len(shard_files[name]) |-> LineAt(name, i)]

\* The dict comprehension over the listed paths: a later path with the same
\* shard number overwrites the earlier one.
DictOf(order) ==
    [k \in {ShardKey(order[i]) : i \in 1..Len(order)} |->
        LET last == CHOOSE i \in 1..Len(order) :
                /\ ShardKey(order[i]) = k
                /\ \A j \in 1..Len(order) : ShardKey(order[j]) = k => j <= i
        IN order[last]]

\* input_files_dict.keys(): the distinct shard numbers, in insertion order.
RECURSIVE DictKeys(_)
DictKeys(order) ==
    IF order = <<>> THEN <<>>
    ELSE LET front == SubSeq(order, 1, Len(order) - 1)
             k == ShardKey(order[Len(order)])
         IN IF \E i \in 1..Len(front) : ShardKey(front[i]) = k
            THEN DictKeys(front)
            ELSE Append(DictKeys(front), k)

\* Variant: the keys visited as the dict holds them, unsorted.
Unsorted(ks) == ks

\* sorted(...) of a list of distinct integers
RECURSIVE Sorted(_)
Sorted(ks) ==
    IF ks = <<>> THEN <<>>
    ELSE LET m == CHOOSE i \in 1..Len(ks) : \A j \in 1..Len(ks) : ks[i] <= ks[j]
         IN <<ks[m]>> \o Sorted(SubSeq(ks, 1, m - 1) \o SubSeq(ks, m + 1, Len(ks)))

\* The three header branches of the loop body test this.
IsFirstShard(k) == k = 1

\* Variant: a final `else` that keeps the other '#' lines of the first shard.
WritesOtherOfFirstShard(k, line) ==
    IF StartsWith(line, "##fileformat") THEN IsFirstShard(k)
    ELSE IF \/ StartsWith(line, "##INFO")
            \/ StartsWith(line, "##FILTER")
            \/ StartsWith(line, "##FORMAT")
            \/ StartsWith(line, "##contig")
            \/ StartsWith(line, "##command") THEN IsFirstShard(k)
    ELSE IF StartsWith(line, "#CHROM") THEN IsFirstShard(k)
    ELSE IF ~StartsWith(line, "#") THEN TRUE
    ELSE IsFirstShard(k)

\* Variant: a final `else` that writes every other line.
WritesEveryOther(k, line) ==
    IF StartsWith(line, "##fileformat") THEN IsFirstShard(k)
    ELSE IF \/ StartsWith(line, "##INFO")
            \/ StartsWith(line, "##FILTER")
            \/ StartsWith(line, "##FORMAT")
            \/ StartsWith(line, "##contig")
            \/ StartsWith(line, "##command") THEN IsFirstShard(k)
    ELSE IF StartsWith(line, "#CHROM") THEN IsFirstShard(k)
    ELSE TRUE

\* Variant: data lines kept from the first shard only, like the header.
WritesFirstShardOnly(k, line) ==
    IF StartsWith(line, "##fileformat") THEN IsFirstShard(k)
    ELSE IF \/ StartsWith(line, "##INFO")
            \/ StartsWith(line, "##FILTER")
            \/ StartsWith(line, "##FORMAT")
            \/ StartsWith(line, "##contig")
            \/ StartsWith(line, "##command") THEN IsFirstShard(k)
    ELSE IF StartsWith(line, "#CHROM") THEN IsFirstShard(k)
    ELSE IF ~StartsWith(line, "#") THEN IsFirstShard(k)
    ELSE FALSE

\* The if/elif chain of the loop body: is `line`, read from the shard with
\* number k, written to the output
Writes(k, line) ==
    IF StartsWith(line, "##fileformat") THEN IsFirstShard(k)
    ELSE IF \/ StartsWith(line, "##INFO")
            \/ StartsWith(line, "##FILTER")
            \/ StartsWith(line, "##FORMAT")
            \/ StartsWith(line, "##contig")
            \/ StartsWith(line, "##command") THEN IsFirstShard(k)
    ELSE IF StartsWith(line, "#CHROM") THEN IsFirstShard(k)
    ELSE IF ~StartsWith(line, "#") THEN TRUE
    ELSE FALSE

InitMerge ==
    /\ max_parallel_jobs = 1
    /\ GateStart
    /\ ColocIdle
    /\ \E S \in SUBSET ShardNames :
        /\ Cardinality(S) <= MaxShards
        /\ shard_files \in Directories(S, MaxLines)
    /\ MergeStart

\* glob the input directory, build input_files_dict, open the output and
\* sort the keys for the loop
BuildDict ==
    /\ mpc = "glob"
    /\ \E order \in Listings(DOMAIN shard_files) :
        /\ input_files_dict' = DictOf(order)
        /\ todo' = Sorted(DictKeys(order))
    /\ mpc' = "next"
    /\ UNCHANGED <<shard_files, key, lineno, out, parsed, parsing, open_shards, opened>>
    /\ UNCHANGED <<gateVars, colocVars>>

\* Variant: the exception caught and the loop carried on.
RaisedPcSwallowed == "next"

\* Where an exception raised inside the two `with` blocks leaves the run:
\* nothing catches it, so it ends main.
RaisedPc == "failed"

\* Variant: the shard file left open.
ClosedLeaking(open, name) == open

\* Leaving `with gzip.open(input_file, 'rt') as f` closes the shard file.
Closed(open, name) == open \ {name}

\* the next `for key in sorted(...)` iteration: print 'Parsing <file>' and
\* gzip.open the shard
OpenShard ==
    /\ mpc = "next"
    /\ todo # <<>>
    /\ key' = Head(todo)
    /\ todo' = Tail(todo)
    /\ lineno' = 0
    /\ parsing' = input_files_dict[Head(todo)]
    /\ open_shards' = open_shards \cup {input_files_dict[Head(todo)]}
    /\ opened' = opened + 1
    /\ mpc' = "read"
    /\ UNCHANGED <<shard_files, input_files_dict, out, parsed>>
    /\ UNCHANGED <<gateVars, colocVars>>

\* the next iteration, but gzip.open cannot open the shard and raises
OpenFails ==
    /\ mpc = "next"
    /\ todo # <<>>
    /\ key' = Head(todo)
    /\ todo' = Tail(todo)
    /\ lineno' = 0
    /\ parsing' = input_files_dict[Head(todo)]
    /\ error' = "OSError"
    /\ mpc' = RaisedPc
    /\ UNCHANGED <<shard_files, input_files_dict, out, parsed, open_shards, opened>>
    /\ UNCHANGED <<max_parallel_jobs, jobs, created, deps, work, submitted, status>>
    /\ UNCHANGED colocVars

\* reading the next line of the open shard raises (a damaged or truncated
\* gzip stream); the `with` block closes the shard on the way out
ReadFails ==
    /\ mpc = "read"
    /\ error' = "OSError"
    /\ open_shards' = Closed(open_shards, input_files_dict[key])
    /\ mpc' = RaisedPc
    /\ UNCHANGED <<shard_files, input_files_dict, todo, key, lineno, out, parsed,
                   parsing, opened>>
    /\ UNCHANGED <<max_parallel_jobs, jobs, created, deps, work, submitted, status>>
    /\ UNCHANGED colocVars

\* one iteration of `for line in f`
ReadLine ==
    /\ mpc = "read"
    /\ lineno < Len(shard_files[input_files_dict[key]])
    /\ LET line == LineAt(input_files_dict[key], lineno + 1) IN
       out' = IF Writes(key, line) THEN Append(out, line) ELSE out
    /\ lineno' = lineno + 1
    /\ UNCHANGED <<shard_files, input_files_dict, mpc, todo, key, parsed,
                   parsing, open_shards, opened>>
    /\ UNCHANGED <<gateVars, colocVars>>

\* the shard is exhausted: leave `with gzip.open(...)`
CloseShard ==
    /\ mpc = "read"
    /\ lineno = Len(shard_files[input_files_dict[key]])
    /\ open_shards' = Closed(open_shards, input_files_dict[key])
    /\ mpc' = "next"
    /\ UNCHANGED <<shard_files, input_files_dict, todo, key, lineno, out, parsed,
                   parsing, opened>>
    /\ UNCHANGED <<gateVars, colocVars>>

\* the loop is over: close the output, print 'Parsed N sharded VCFs'
Report ==
    /\ mpc = "next"
    /\ todo = <<>>
    /\ parsed' = Cardinality(DOMAIN input_files_dict)
    /\ mpc' = "done"
    /\ UNCHANGED <<shard_files, input_files_dict, todo, key, lineno, out,
                   parsing, open_shards, opened>>
    /\ UNCHANGED <<gateVars, colocVars>>

NextMerge ==
    \/ BuildDict
    \/ OpenShard
    \/ OpenFails
    \/ ReadLine
    \/ ReadFails
    \/ CloseShard
    \/ Report

SpecMerge == InitMerge /\ [][NextMerge]_vars

\* ------------------------------------------------------ the coloc runner
\* A string with separators is the sequence of its parts: the option
\* "alt,crp" is <<"alt", "crp">>, and each part on its own is a string of
\* one part.
PhenoNames == {"alt", "crp"}

\* The values --pheno may have: one name or several, each named once.
PhenoOptions ==
    {o \in UNION {[1..n -> PhenoNames] : n \in 1..MaxPhenos} :
        \A i, j \in 1..Len(o) : o[i] = o[j] => i = j}

\* str.split(sep): the parts, each a string of its own
Split(str) == [i \in 1..Len(str) |-> <<str[i]>>]

\* --celltypes, at its default
celltypes == <<"CD4_TCM">>

\* egenes['gene_name']: gene names, none with an underscore in it
Genes == {<<g>> : g \in 1..MaxGenes}

\* f'{str_cis_dir}/{celltype}/chr{chrom}/{gene}_100000bp_meta_results.tsv',
\* as its '_'-separated parts after the last '/'
EqtlFileName(gene) == gene \o <<"100000bp", "meta", "results.tsv">>

\* coloc_runner: gene = eqtl_file_path.split('/')[-1].split('_')[0]
GeneOfFile(file_name) == Split(file_name)[1]

\* output_path(f"coloc/gymrek-ukbb-{p}/{celltype}/{gene}_100kb.tsv")
ResultPath(p, celltype, gene) == [pheno |-> p, celltype |-> celltype, gene |-> gene]

\* The combinations in the order of the three nested loops of main.
RECURSIVE SeqOfSet(_)
SeqOfSet(S) ==
    IF S = {} THEN <<>>
    ELSE LET m == CHOOSE x \in S : \A y \in S : x[1] <= y[1]
         IN <<m>> \o SeqOfSet(S \ {m})

GeneList == SeqOfSet(Genes)

RECURSIVE Combinations(_)
Combinations(phenotypes) ==
    IF phenotypes = <<>> THEN <<>>
    ELSE [i \in 1..(Len(celltypes) * Len(GeneList)) |->
            [phenotype |-> Head(phenotypes),
             celltype |-> Split(celltypes)[((i - 1) \div Len(GeneList)) + 1],
             gene |-> GeneList[((i - 1) % Len(GeneList)) + 1]]]
         \o Combinations(Tail(phenotypes))

Combos == Combinations(Split(pheno))

\* The path of the 'already processed' test of main: it is built with the
\* whole option `pheno`.
CheckedPath(c) == ResultPath(pheno, c.celltype, c.gene)

\* The path coloc_runner writes its result to: main passes `phenotype` as
\* the runner's `pheno`, and the runner takes the gene from the file name.
WrittenPath(c) ==
    ResultPath(c.phenotype, c.celltype, GeneOfFile(EqtlFileName(c.gene)))

InitColoc ==
    /\ max_parallel_jobs = 1
    /\ GateStart
    /\ shard_files = <<>>
    /\ MergeStart
    /\ pheno \in PhenoOptions
    /\ nodata \in SUBSET (PhenoNames \X Genes)
    /\ existing = {}
    /\ run = 1
    /\ cpc = "loop"
    /\ cpos = 0
    /\ csubmitted = {}
    /\ cpending = {}

InLoop == cpc = "loop" /\ cpos < Len(Combos)

\* 'Coloc results already processed for <gene>: skipping....'
ColocSkipProcessed ==
    /\ InLoop
    /\ CheckedPath(Combos[cpos + 1]) \in existing
    /\ cpos' = cpos + 1
    /\ UNCHANGED <<pheno, nodata, existing, run, cpc, csubmitted, cpending>>
    /\ UNCHANGED <<gateVars, mergeVars>>

\* 'No STR GWAS data for <gene> in the cis-window: skipping....'
ColocSkipNoData ==
    /\ InLoop
    /\ CheckedPath(Combos[cpos + 1]) \notin existing
    /\ <<Combos[cpos + 1].phenotype[1], Combos[cpos + 1].gene>> \in nodata
    /\ cpos' = cpos + 1
    /\ UNCHANGED <<pheno, nodata, existing, run, cpc, csubmitted, cpending>>
    /\ UNCHANGED <<gateVars, mergeVars>>

\* b = get_batch(...); coloc_job = b.new_python_job(...); coloc_job.call(...)
ColocSubmit ==
    /\ InLoop
    /\ CheckedPath(Combos[cpos + 1]) \notin existing
    /\ <<Combos[cpos + 1].phenotype[1], Combos[cpos + 1].gene>> \notin nodata
    /\ csubmitted' = csubmitted \cup {Combos[cpos + 1]}
    /\ cpending' = cpending \cup {Combos[cpos + 1]}
    /\ cpos' = cpos + 1
    /\ UNCHANGED <<pheno, nodata, existing, run, cpc>>
    /\ UNCHANGED <<gateVars, mergeVars>>

\* b.run(wait=False) after the loops; `b` is bound only where a job was made
ColocRun ==
    /\ cpc = "loop"
    /\ cpos = Len(Combos)
    /\ IF csubmitted = {}
       THEN cpc' = "failed" /\ error' = "UnboundLocalError"
       ELSE cpc' = "ran" /\ UNCHANGED error
    /\ UNCHANGED <<pheno, nodata, existing, run, cpos, csubmitted, cpending>>
    /\ UNCHANGED <<max_parallel_jobs, jobs, created, deps, work, submitted, status>>
    /\ UNCHANGED mergeVars

\* A job of the batch runs coloc_runner to its end: the result is written.
ColocJobWrites ==
    /\ cpc = "ran"
    /\ \E c \in cpending :
        /\ existing' = existing \cup {WrittenPath(c)}
        /\ cpending' = cpending \ {c}
    /\ UNCHANGED <<pheno, nodata, run, cpc, cpos, csubmitted>>
    /\ UNCHANGED <<gateVars, mergeVars>>

\* The runner is started again with the same arguments, once every job of
\* the first run has finished.
ColocRerun ==
    /\ run = 1
    /\ cpc = "ran"
    /\ cpending = {}
    /\ run' = 2
    /\ cpc' = "loop"
    /\ cpos' = 0
    /\ csubmitted' = {}
    /\ UNCHANGED <<pheno, nodata, existing, cpending>>
    /\ UNCHANGED <<gateVars, mergeVars>>

NextColoc ==
    \/ ColocSkipProcessed
    \/ ColocSkipNoData
    \/ ColocSubmit
    \/ ColocRun
    \/ ColocJobWrites
    \/ ColocRerun

SpecColoc == InitColoc /\ [][NextColoc]_vars

\* ---------------------------------------------------------- gate claims
Running == {j \in 1..created : status[j] = "running"}

ValidWindow == max_parallel_jobs >= 1

\* C1: for a window W >= 1 the n-th registered job gets no dependency when
\* n <= W and exactly the (n-W)-th registered job when n > W.
C1_DependencySets ==
    ValidWindow =>
        \A n \in 1..created :
            deps[n] = IF n <= max_parallel_jobs THEN {} ELSE {n - max_parallel_jobs}

\* W = 2 on four jobs gives [], [], {A}, {B}.
C1_Witness ==
    /\ max_parallel_jobs = 2
    /\ jobs = <<1, 2, 3, 4>>
    /\ deps = <<{}, {}, {1}, {2}>>

\* C2: for every i > W, job i is not started before job i-W is done.
C2_StartAfterPredecessor ==
    ValidWindow =>
        \A i \in 1..created :
            (i > max_parallel_jobs /\ status[i] # "pending")
                => status[i - max_parallel_jobs] = "done"

C2_Witness ==
    /\ ValidWindow
    /\ \E i \in 1..created :
        /\ i > max_parallel_jobs
        /\ status[i] = "running"
        /\ \E k \in 1..created : k < i /\ status[k] = "running"

C5_RejectedBeforeAnyJob ==
    max_parallel_jobs <= 0 =>
        /\ created = 0
        /\ error \in {"none", "ConfigurationError"}
        /\ ~submitted

\* ------------------------------------------------- gate claims, continued
\* C16: a registration adds at most one dependency and only to the job
\* being registered: the dependencies of the jobs registered before, and
\* the handles already in the history with their order, stay as they are.
C16_RegistrationFrame ==
    [][/\ \A j \in 1..created : deps'[j] = deps[j]
       /\ \A j \in (created + 1)..created' : Cardinality(deps'[j]) <= 1
       /\ Len(jobs') >= Len(jobs)
       /\ \A k \in 1..Len(jobs) : jobs'[k] = jobs[k]]_vars

\* Two jobs with a dependency each have been registered one after the other.
C16_Witness ==
    /\ ValidWindow
    /\ created >= max_parallel_jobs + 2
    /\ deps[created] # {}
    /\ deps[created - 1] # {}

AllDone == \A j \in 1..created : status[j] = "done"

\* C17: for W >= 1 every dependency points to a job registered strictly
\* earlier (no cycle, no job waiting for itself), and under a fair batch
\* service every registered job of a submitted batch ends up done.
C17_NoDeadlock ==
    /\ [](ValidWindow => \A j \in 1..created : \A d \in deps[j] : d \in 1..(j - 1))
    /\ (ValidWindow /\ submitted) ~> AllDone

\* A batch longer than the window has run to its end.
C17_Witness ==
    /\ ValidWindow
    /\ submitted
    /\ created > max_parallel_jobs
    /\ AllDone

\* The jobs made for the work items, skipped items left out.
JobsOfWork == SelectSeq(work, LAMBDA w : w # 0)

\* C18: a skipped work item makes no job and takes no place in the window:
\* the list holds the jobs made, and a job's dependency is the job made W
\* made-jobs earlier, skipped items not counted.
C18_SkippedTakeNoSlot ==
    ValidWindow =>
        /\ jobs = JobsOfWork
        /\ created = Len(JobsOfWork)
        /\ \A n \in 1..Len(JobsOfWork) :
            deps[JobsOfWork[n]] =
                IF n <= max_parallel_jobs THEN {}
                ELSE {JobsOfWork[n - max_parallel_jobs]}
        /\ \A j \in 1..created : deps[j] \subseteq 1..created

\* Items were skipped between a job and the later job that waits for it.
C18_Witness ==
    /\ ValidWindow
    /\ \E i, k, l \in 1..Len(work) :
        /\ i < k /\ k < l
        /\ work[i] # 0 /\ work[k] = 0 /\ work[l] # 0
        /\ deps[work[l]] = {work[i]}

\* ------------------------------------------------------ combiner claims
Names == DOMAIN shard_files

AllKeys == {ShardKey(name) : name \in Names}

\* No two shard files have the same shard number.
UniqueKeys == \A a, b \in Names : ShardKey(a) = ShardKey(b) => a = b

MinKey == CHOOSE k \in AllKeys : \A j \in AllKeys : k <= j

FileOfKey(k) == CHOOSE name \in Names : ShardKey(name) = k

IsHeaderControl(line) ==
    \/ StartsWith(line, "##fileformat")
    \/ StartsWith(line, "##INFO")
    \/ StartsWith(line, "##FILTER")
    \/ StartsWith(line, "##FORMAT")
    \/ StartsWith(line, "##contig")
    \/ StartsWith(line, "##command")
    \/ StartsWith(line, "#CHROM")

IsData(line) == ~StartsWith(line, "#")

HeaderLines(lines) == SelectSeq(lines, IsHeaderControl)

DataLines(lines) == SelectSeq(lines, IsData)

\* The numbers of K, smallest first.
RECURSIVE Ascending(_)
Ascending(K) ==
    IF K = {} THEN <<>>
    ELSE LET m == CHOOSE k \in K : \A j \in K : k <= j
         IN <<m>> \o Ascending(K \ {m})

\* The data lines of the shards numbered ks, shard after shard.
RECURSIVE DataInOrder(_)
DataInOrder(ks) ==
    IF ks = <<>> THEN <<>>
    ELSE DataLines(FileLines(FileOfKey(Head(ks)))) \o DataInOrder(Tail(ks))

\* What the loop body lets through of the shards numbered ks, shard after
\* shard.
RECURSIVE WrittenInOrder(_)
WrittenInOrder(ks) ==
    IF ks = <<>> THEN <<>>
    ELSE LET k == Head(ks) IN
         SelectSeq(FileLines(FileOfKey(k)), LAMBDA line : Writes(k, line))
             \o WrittenInOrder(Tail(ks))

\* C6: for any non-empty set of shards with unique keys, whatever the keys
\* are, the header/control lines of the merged output are exactly those of
\* the shard with the smallest key, in their order.
C6_HeaderOfMinShard ==
    (mpc = "done" /\ Names # {} /\ UniqueKeys) =>
        HeaderLines(out) = HeaderLines(FileLines(FileOfKey(MinKey)))

\* C7: with unique keys the data lines of the merged output are the data
\* lines of every shard, shards in ascending key order, each shard's lines
\* in their order, none dropped and none duplicated.
C7_DataInKeyOrder ==
    (mpc = "done" /\ UniqueKeys) => DataLines(out) = DataInOrder(Ascending(AllKeys))

\* Shard 2 holds a data line, shard 1 a header and a data line: the output
\* is the header, the data line of shard 1, the data line of shard 2.
C7_Witness ==
    /\ mpc = "done"
    /\ Names = {<<1>>, <<2>>}
    /\ shard_files[<<2>>] = <<"chr1">>
    /\ shard_files[<<1>>] = <<"##fileformat", "chr1">>
    /\ out = <<LineAt(<<1>>, 1), LineAt(<<1>>, 2), LineAt(<<2>>, 1)>>

\* C8: no header/control line read from a shard other than the one with
\* the smallest key is ever written to the output.
C8_NoHeaderFromLaterShard ==
    \A i \in 1..Len(out) :
        IsHeaderControl(out[i]) => ShardKey(out[i].file) = MinKey

\* C9: shards are visited in ascending key order, fixed when the loop
\* starts, so with unique keys the output does not depend on the order in
\* which the files were listed.
C9_ListingOrderIrrelevant ==
    UniqueKeys =>
        /\ mpc # "glob" => todo = Ascending({k \in AllKeys : k > key})
        /\ mpc = "done" => out = WrittenInOrder(Ascending(AllKeys))

C9_Witness ==
    /\ mpc = "done"
    /\ UniqueKeys
    /\ \E i, j \in 1..Len(out) :
        i < j /\ ShardKey(out[i].file) < ShardKey(out[j].file)

\* C10: a merge of shards two of which have the same key fails with
\* DuplicateShardKeyError; it never completes having merged one of them.
C10_DuplicateKeyFails ==
    ~UniqueKeys => ~(mpc = "done" /\ error # "DuplicateShardKeyError")

\* A structural line that is neither data nor one of the header/control kinds.
IsPassThrough(line) == ~IsData(line) /\ ~IsHeaderControl(line)

PassThroughLines(lines) == SelectSeq(lines, IsPassThrough)

\* C11: a merge of an empty set of shards fails with EmptyInputError: it
\* produces no output and reports no success.
C11_EmptyInputFails ==
    Names = {} => (mpc # "done" /\ parsed = -1)

\* C12 as stated, taken where shard 1 is the first shard (so that the
\* `key == 1` test is not what decides it): the pass-through lines of the
\* minimum-key shard are written to the output.
C12_PassThroughOfMinShard ==
    (mpc = "done" /\ UniqueKeys /\ Names # {} /\ MinKey = 1) =>
        PassThroughLines(out) = PassThroughLines(FileLines(FileOfKey(MinKey)))

\* C12 amended: a pass-through line is written to the output from no shard,
\* the minimum-key shard included: reading one leaves the output as it is.
C12_PassThroughNeverWritten ==
    [][(/\ mpc = "read"
        /\ lineno' = lineno + 1
        /\ IsPassThrough(LineAt(input_files_dict[key], lineno + 1)))
       => out' = out]_vars

\* Shard 1, the first shard, and a later shard both hold a pass-through
\* line and a line that is written.
C12_Witness ==
    /\ mpc = "done"
    /\ UniqueKeys
    /\ Names # {}
    /\ MinKey = 1
    /\ PassThroughLines(FileLines(FileOfKey(1))) # <<>>
    /\ \E name \in Names : ShardKey(name) > 1 /\ PassThroughLines(FileLines(name)) # <<>>
    /\ out # <<>>

\* C13: when a shard cannot be opened or read, the run ends in an error
\* that names the failing shard: no 'Parsed N' report is made and no line
\* of a later shard is written.
C13_FailureEndsRun ==
    error # "none" =>
        /\ mpc = "failed"
        /\ parsed = -1
        /\ parsing = input_files_dict[key]
        /\ \A i \in 1..Len(out) : ShardKey(out[i].file) <= key

\* A read fails part-way: lines were written and shards are still to come.
C13_Witness ==
    /\ mpc = "failed"
    /\ lineno > 0
    /\ out # <<>>
    /\ todo # <<>>

\* C14: on success the reported count is the number of shard files opened
\* and read, which is the number of shard files in the input directory.
C14_CountIsFilesFound ==
    mpc = "done" => (parsed = opened /\ parsed = Cardinality(Names))

\* What the loop body lets through of the files input_files_dict holds for
\* the keys ks, shard after shard.
RECURSIVE WrittenOfDict(_)
WrittenOfDict(ks) ==
    IF ks = <<>> THEN <<>>
    ELSE LET k == Head(ks) IN
         SelectSeq(FileLines(input_files_dict[k]), LAMBDA line : Writes(k, line))
             \o WrittenOfDict(Tail(ks))

\* C15: at most one shard is open at any time, the next one opened only
\* after the current one was read to its end and closed, and every line
\* read has been written (or dropped) before the next one is read.
C15_OneShardAtATime ==
    /\ Cardinality(open_shards) <= 1
    /\ mpc # "read" => open_shards = {}
    /\ mpc = "read" =>
        /\ open_shards = {input_files_dict[key]}
        /\ out = WrittenOfDict(Ascending({k \in DOMAIN input_files_dict : k < key}))
                 \o SelectSeq(SubSeq(FileLines(input_files_dict[key]), 1, lineno),
                              LAMBDA line : Writes(key, line))

\* The second shard is being read, lines of both shards already written.
C15_Witness ==
    /\ mpc = "read"
    /\ opened = 2
    /\ lineno > 0
    /\ \E i, j \in 1..Len(out) : out[i].file # out[j].file

\* C20: a '#' line with none of the recognised prefixes is written from no
\* shard, the first included: every line of the output is a recognised
\* header/control line or a line not starting with '#'.
C20_OnlyRecognisedOrData ==
    \A i \in 1..Len(out) : IsHeaderControl(out[i]) \/ IsData(out[i])

\* Shard 1 holds a header line, an unrecognised '#' line and a data line:
\* the output is the header line and the data line.
C20_Witness ==
    /\ mpc = "done"
    /\ Names = {<<1>>}
    /\ shard_files[<<1>>] = <<"##fileformat", "##source", "chr1">>
    /\ out = <<LineAt(<<1>>, 1), LineAt(<<1>>, 3)>>

\* -------------------------------------------------- coloc runner claims
\* C19: after a run whose jobs all completed, a re-run with the same
\* arguments makes no job for a combination whose result is written.
C19_RerunSubmitsNothing ==
    run = 2 => \A c \in csubmitted : WrittenPath(c) \notin existing

====
